---- MODULE Spec2Model ----
(***************************************************************************)
(* A model of the atomcraft site's animation helpers (horizontalLoop and   *)
(* pathEase) and of the content cache of frontend/src/api.ts.              *)
(*                                                                         *)
(* JavaScript numbers are modelled as exact rationals <<num, den>> with    *)
(* den > 0, kept in lowest terms, so that equal values are equal tuples.   *)
(* NaN is <<0, 0>>.                                                        *)
(***************************************************************************)
EXTENDS Integers, Sequences, FiniteSets, TLC

VARIABLES
    \* horizontalLoop
    phase,        \* "input" before horizontalLoop has run, "built" after
    items,        \* the items' geometry, a sequence of records
    config,       \* the config object: speed, paddingRight, snap, paused
    xPercents,    \* xPercents[]
    widths,       \* widths[]
    times,        \* times[] (tl.times)
    totalWidth,   \* totalWidth
    curIndex,     \* curIndex
    playhead,     \* tl.time()
    last,         \* the last navigation call: its arguments and what it passed to tweenTo
    \* pathEase
    easePhase,    \* "input" before pathEase has run, "built" after, "off" when unused
    precision,    \* config.precision
    smooth,       \* config.smooth: [flag |-> TRUE] for true, else [amount |-> n]
    samples,      \* the normalized axis positions of the path at i / l, 0 < i < l
    l,            \* l
    positions,    \* positions[], index 0 at position 1 of the sequence
    a,            \* a[], index 0 at position 1 of the sequence
    progress,     \* the last argument given to the returned ease
    eased,        \* what the returned ease returned for it
    \* api.ts
    apiPhase,           \* "on" when the module is loaded, "off" when unused
    now,                \* Date.now()
    ticks,              \* how many times the clock has advanced
    teamsCache,         \* teamsCache
    teamsLastRetrieval, \* teamsLastRetrieval
    newsCache,          \* newsCache
    newsLastRetrieval,  \* newsLastRetrieval
    calls,              \* the calls of getTeams and getNews in progress, per caller
    filled,             \* per content type, when it was last fetched non-empty (else -1)
    lastCall            \* per content type, the last call: when, and whether it queried

loopVars == <<phase, items, config, xPercents, widths, times, totalWidth,
              curIndex, playhead, last>>

easeVars == <<easePhase, precision, smooth, samples, l, positions, a, progress, eased>>

apiVars == <<apiPhase, now, ticks, teamsCache, teamsLastRetrieval, newsCache,
            newsLastRetrieval, calls, filled, lastCall>>

vars == <<loopVars, easeVars, apiVars>>
otherThanLoop == <<easeVars, apiVars>>
otherThanEase == <<loopVars, apiVars>>
otherThanApi == <<loopVars, easeVars>>

-----------------------------------------------------------------------------
(* Numbers *)

Abs(x) == IF x < 0 THEN 0 - x ELSE x

RECURSIVE Gcd(_, _)
Gcd(x, y) == IF y = 0 THEN x ELSE Gcd(y, x % y)

\* the rational n/d (d # 0) in lowest terms with a positive denominator
Rat(n, d) ==
    LET s == IF d < 0 THEN 0 - 1 ELSE 1
        g == Gcd(Abs(n), Abs(d))
    IN  <<(s * n) \div g, (s * d) \div g>>

R(n) == <<n, 1>>
Zero == R(0)
One == R(1)

RAdd(p, q) == Rat(p[1] * q[2] + q[1] * p[2], p[2] * q[2])
RSub(p, q) == Rat(p[1] * q[2] - q[1] * p[2], p[2] * q[2])
RMul(p, q) == Rat(p[1] * q[1], p[2] * q[2])
RDiv(p, q) == Rat(p[1] * q[2], p[2] * q[1])
RLt(p, q) == p[1] * q[2] < q[1] * p[2]
RLe(p, q) == p[1] * q[2] <= q[1] * p[2]
RGt(p, q) == RLt(q, p)
RGe(p, q) == RLe(q, p)

\* Math.floor, Math.ceil and Math.round (round half up) of a rational
RFloor(p) == p[1] \div p[2]
RCeil(p) == 0 - ((0 - p[1]) \div p[2])
RRound(p) == (2 * p[1] + p[2]) \div (2 * p[2])

\* JavaScript's % on integers: the remainder takes the sign of the dividend
JsRem(x, y) == IF x >= 0 THEN x % Abs(y) ELSE 0 - ((0 - x) % Abs(y))

\* JavaScript's % on rationals
RRem(p, q) ==
    LET quo == RDiv(p, q)
        t == IF quo[1] >= 0 THEN RFloor(quo) ELSE RCeil(quo)
    IN  RSub(p, RMul(R(t), q))

\* NaN, and undefined where it only meets arithmetic
NaN == <<0, 0>>
IsNaN(v) == v = NaN

\* arithmetic of JavaScript numbers that may be NaN
NAdd(v, w) == IF IsNaN(v) \/ IsNaN(w) THEN NaN ELSE RAdd(v, w)
NSub(v, w) == IF IsNaN(v) \/ IsNaN(w) THEN NaN ELSE RSub(v, w)
NMul(v, w) == IF IsNaN(v) \/ IsNaN(w) THEN NaN ELSE RMul(v, w)
NDiv(v, w) == IF IsNaN(v) \/ IsNaN(w) THEN NaN ELSE RDiv(v, w)

\* a[i] of a JavaScript array held as a sequence: undefined (NaN in arithmetic)
\* outside the array
At(arr, i) == IF i >= 0 /\ i < Len(arr) THEN arr[i + 1] ELSE NaN

-----------------------------------------------------------------------------
(* horizontalLoop: construction *)

\* gsap.utils.snap(inc): the nearest multiple of inc
snap(inc, v) == RMul(R(RRound(RDiv(v, R(inc)))), R(inc))

\* a wrap that forgets that % keeps the sign of a negative value
wrapNoNegative(min, max, value) == JsRem(value - min, max - min) + min

\* gsap.utils.wrap(min, max, value) on integers
wrap(min, max, value) ==
    LET range == max - min
    IN  JsRem(range + JsRem(value - min, range), range) + min

\* gsap.utils.wrap(min, max, value) on rationals
wrapTime(min, max, value) ==
    LET range == RSub(max, min)
    IN  RAdd(RRem(RAdd(range, RRem(RSub(value, min), range)), range), min)

pixelsPerSecond(cfg) == cfg.speed * 100

\* the xPercent callback of gsap.set: widths[i] and xPercents[i] of one item
widthOf(it) == it.width
xPercentOf(cfg, it) ==
    snap(cfg.snap, RAdd(RMul(RDiv(R(it.x), R(it.width)), R(100)), R(it.xPercent)))

xPercentsOf(cfg, its) == [i \in 1..Len(its) |-> xPercentOf(cfg, its[i])]
widthsOf(its) == [i \in 1..Len(its) |-> widthOf(its[i])]

curXOf(cfg, it) == RMul(RDiv(xPercentOf(cfg, it), R(100)), R(widthOf(it)))

totalWidthOf(cfg, its) ==
    LET lastItem == its[Len(its)]
        startX == its[1].offsetLeft
    IN  RAdd(RAdd(RSub(RAdd(R(lastItem.offsetLeft), curXOf(cfg, lastItem)), R(startX)),
                  R(lastItem.width * lastItem.scaleX)),
             R(cfg.paddingRight))

\* a distanceToStart measured from the item back to the start
distanceToStartReversed(cfg, its, i) ==
    RSub(R(its[1].offsetLeft), RAdd(R(its[i].offsetLeft), curXOf(cfg, its[i])))

distanceToStart(cfg, its, i) ==
    RSub(RAdd(R(its[i].offsetLeft), curXOf(cfg, its[i])), R(its[1].offsetLeft))

timesOf(cfg, its) ==
    [i \in 1..Len(its) |-> RDiv(distanceToStart(cfg, its, i), R(pixelsPerSecond(cfg)))]


-----------------------------------------------------------------------------
(* Inputs of horizontalLoop *)

MaxItems == 3

OffsetLefts == {0, 100}
Widths == {100, 150}
Xs == {0 - 50, 0}
Speeds == {0 - 1, 1, 2}
Paddings == {0, 20}
Snaps == {1, 5}

Items == [offsetLeft : OffsetLefts, width : Widths, x : Xs, xPercent : {0}, scaleX : {1}]
Configs == [speed : Speeds, paddingRight : Paddings, snap : Snaps, paused : {FALSE},
            repeat : {0}]

ItemSeqs == UNION {[1..n -> Items] : n \in 1..MaxItems}

NoCall == [op |-> "none", arg |-> 0, index |-> 0, from |-> 0, at |-> Zero,
           time |-> Zero, wrapped |-> FALSE, again |-> FALSE]

\* the loop unused
LoopOff ==
    /\ phase = "off"
    /\ items = <<>>
    /\ config = [speed |-> 1, paddingRight |-> 0, snap |-> 1, paused |-> TRUE, repeat |-> 0]
    /\ xPercents = <<>>
    /\ widths = <<>>
    /\ times = <<>>
    /\ totalWidth = Zero
    /\ curIndex = 0
    /\ playhead = Zero
    /\ last = NoCall

\* pathEase unused
EaseOff ==
    /\ easePhase = "off"
    /\ precision = One
    /\ smooth = [flag |-> FALSE, amount |-> 0]
    /\ samples = <<>>
    /\ l = 0
    /\ positions = <<>>
    /\ a = <<>>
    /\ progress = Zero
    /\ eased = Zero

\* callers of getTeams and getNews
MaxCallers == 2
MaxTicks == 3

Callers == 1..MaxCallers
\* what a query of the content source can give back: pages, or an exception
Pages == {<<>>, <<"a">>, <<"a", "b">>}
Idle == [pc |-> "idle", pages |-> <<>>]
NoCallYet == [at |-> 0 - 1, queried |-> FALSE, since |-> 0 - 1]

\* the api module unused
ApiOff ==
    /\ apiPhase = "off"
    /\ now = 0
    /\ ticks = 0
    /\ teamsCache = <<>>
    /\ teamsLastRetrieval = 0
    /\ newsCache = <<>>
    /\ newsLastRetrieval = 0
    /\ calls = [c \in Callers |-> Idle]
    /\ filled = [teams |-> 0 - 1, news |-> 0 - 1]
    /\ lastCall = [teams |-> NoCallYet, news |-> NoCallYet]

InitTimes ==
    /\ phase = "input"
    /\ items \in ItemSeqs
    /\ config \in Configs
    /\ xPercents = <<>>
    /\ widths = <<>>
    /\ times = <<>>
    /\ totalWidth = Zero
    /\ curIndex = 0
    /\ playhead = Zero
    /\ last = NoCall
    /\ EaseOff
    /\ ApiOff

\* horizontalLoop(items, config) up to the definition of toIndex
horizontalLoop ==
    /\ phase = "input"
    /\ phase' = "built"
    /\ xPercents' = xPercentsOf(config, items)
    /\ widths' = widthsOf(items)
    /\ totalWidth' = totalWidthOf(config, items)
    /\ times' = timesOf(config, items)
    /\ curIndex' = 0
    /\ UNCHANGED <<items, config, playhead, last>>
    /\ UNCHANGED otherThanLoop

NextTimes == horizontalLoop

SpecTimes == InitTimes /\ [][NextTimes]_vars

-----------------------------------------------------------------------------
(* horizontalLoop: navigation *)

\* a direction step that compares the delta with the whole length, not half of it
shortestDirectionWholeLength(index, cur, length) ==
    IF Abs(index - cur) > length
    THEN index + (IF index > cur THEN 0 - length ELSE length)
    ELSE index

\* the "always go in the shortest direction" step of toIndex
shortestDirection(index, cur, length) ==
    IF 2 * Abs(index - cur) > length
    THEN index + (IF index > cur THEN 0 - length ELSE length)
    ELSE index

\* a time adjustment that treats the playhead standing on the target as "ahead"
tweenTimeInclusive(index, cur, time, head, dur) ==
    IF (~IsNaN(time) /\ RGe(time, head)) # (index > cur)
    THEN NAdd(time, RMul(dur, R(IF index > cur THEN 1 ELSE 0 - 1)))
    ELSE time

\* a time adjustment that adds the cycle duration in the wrong direction
tweenTimeWrongSign(index, cur, time, head, dur) ==
    IF (~IsNaN(time) /\ RGt(time, head)) # (index > cur)
    THEN NAdd(time, RMul(dur, R(IF index > cur THEN 0 - 1 ELSE 1)))
    ELSE time

\* the time toIndex passes to tweenTo, for the normalized index
tweenTime(index, cur, time, head, dur) ==
    IF (~IsNaN(time) /\ RGt(time, head)) # (index > cur)
    THEN NAdd(time, RMul(dur, R(IF index > cur THEN 1 ELSE 0 - 1)))
    ELSE time

\* whether toIndex sets vars.modifiers = { time: wrap(0, duration) }
wrapsPlayhead(index, cur, time, head) ==
    (~IsNaN(time) /\ RGt(time, head)) # (index > cur)

\* tl.duration(): every item's second segment ends at totalWidth / pixelsPerSecond
tlDuration == RDiv(totalWidth, R(pixelsPerSecond(config)))

\* toIndex(index, vars), called as op
toIndex(op, arg) ==
    LET length == Len(items)
        index == shortestDirection(arg, curIndex, length)
        newIndex == wrap(0, length, index)
        time == At(times, newIndex)
    IN  /\ phase = "built"
        /\ curIndex' = newIndex
        /\ last' = [op |-> op, arg |-> arg, index |-> index, from |-> curIndex,
                    at |-> playhead,
                    time |-> tweenTime(index, curIndex, time, playhead, tlDuration),
                    wrapped |-> wrapsPlayhead(index, curIndex, time, playhead),
                    again |-> op = "toIndex" /\ last.op = "toIndex" /\ last.arg = arg]
        /\ UNCHANGED <<phase, items, config, xPercents, widths, times, totalWidth, playhead>>
        /\ UNCHANGED otherThanLoop

\* a next() that forgets the + 1
nextSameIndex == toIndex("next", curIndex)

\* tl.next, tl.previous, tl.toIndex
next == toIndex("next", curIndex + 1)
previous == toIndex("previous", curIndex - 1)

Over == 2

tlToIndex == \E t \in (0 - Over)..(Len(items) - 1 + Over) : toIndex("toIndex", t)

\* the playhead positions the model looks at: multiples of 1/PlayheadSteps seconds
PlayheadSteps == 2

Grid(lo, hi) ==
    {Rat(k, PlayheadSteps) : k \in RFloor(RMul(lo, R(PlayheadSteps)))..RCeil(RMul(hi, R(PlayheadSteps)))}

Between(lo, hi) == {g \in Grid(lo, hi) : RLe(lo, g) /\ RLe(g, hi)}

\* what the timeline shows for a tweened time value: the wrap modifier when toIndex
\* set it, else the timeline clamps the time to [0, duration]
shown(v) ==
    IF last.wrapped THEN wrapTime(Zero, tlDuration, v)
    ELSE IF RLt(v, Zero) THEN Zero
    ELSE IF RGt(v, tlDuration) THEN tlDuration
    ELSE v

\* the timeline playing by itself (it is not paused and no tweenTo has paused it);
\* with repeat it starts over at the end of a cycle
Play ==
    /\ phase = "built"
    /\ ~config.paused
    /\ last.op = "none"
    /\ \E g \in Between(Zero, tlDuration) :
          /\ RGt(g, playhead) \/ config.repeat # 0
          /\ g # playhead
          /\ playhead' = g
    /\ UNCHANGED <<phase, items, config, xPercents, widths, times, totalWidth, curIndex, last>>
    /\ UNCHANGED otherThanLoop

\* the tween returned by tl.tweenTo(time, vars) scrubbing the playhead towards time
TweenProgress ==
    /\ phase = "built"
    /\ last.op # "none"
    /\ \E v \in Between(IF RLt(last.at, last.time) THEN last.at ELSE last.time,
                        IF RLt(last.at, last.time) THEN last.time ELSE last.at) :
          /\ shown(v) # playhead
          /\ playhead' = shown(v)
    /\ UNCHANGED <<phase, items, config, xPercents, widths, times, totalWidth, curIndex, last>>
    /\ UNCHANGED otherThanLoop

\* the tween reaching its end
TweenComplete ==
    /\ phase = "built"
    /\ last.op # "none"
    /\ playhead # shown(last.time)
    /\ playhead' = shown(last.time)
    /\ UNCHANGED <<phase, items, config, xPercents, widths, times, totalWidth, curIndex, last>>
    /\ UNCHANGED otherThanLoop

\* loops of equal items laid out in a row, all translated by the same x
NavXs == {0 - 50, 0, 50}
NavWidths == {100}
Row(n, w, x) ==
    [i \in 1..n |-> [offsetLeft |-> (i - 1) * w, width |-> w, x |-> x,
                     xPercent |-> 0, scaleX |-> 1]]
NavConfigs == [speed : {1}, paddingRight : {0, 50}, snap : {1}, paused : {FALSE},
               repeat : {0 - 1, 0}]

\* the state horizontalLoop returns
InitNav ==
    /\ phase = "built"
    /\ \E n \in 1..MaxItems, w \in NavWidths, x \in NavXs : items = Row(n, w, x)
    /\ config \in NavConfigs
    /\ xPercents = xPercentsOf(config, items)
    /\ widths = widthsOf(items)
    /\ totalWidth = totalWidthOf(config, items)
    /\ times = timesOf(config, items)
    /\ curIndex = 0
    /\ playhead = Zero
    /\ last = NoCall
    /\ EaseOff
    /\ ApiOff

NextNav == next \/ previous \/ tlToIndex \/ Play \/ TweenProgress \/ TweenComplete

SpecNav == InitNav /\ [][NextNav]_vars

-----------------------------------------------------------------------------
(* pathEase *)

\* l = Math.round(precision * 200)
lOf(prec) == RRound(RMul(prec, R(200)))

\* smoothRange = config.smooth === true ? 7 : Math.round(config.smooth) || 0
smoothRangeOf(sm) == IF sm.flag THEN 7 ELSE sm.amount

\* positions = [0], positions[i] sampled for 0 < i < l, positions[l] = 1
positionsOf(len, smp) ==
    [k \in 1..(IF len >= 0 THEN len + 1 ELSE 1) |->
        IF k = len + 1 THEN One
        ELSE IF k = 1 THEN Zero
        ELSE smp[k - 1]]

\* while (positions[minIndex] <= p && minIndex++ < l) {}
RECURSIVE advance(_, _, _, _)
advance(pos, minIndex, p, len) ==
    IF ~IsNaN(At(pos, minIndex)) /\ RLe(At(pos, minIndex), p)
    THEN IF minIndex < len THEN advance(pos, minIndex + 1, p, len) ELSE minIndex + 1
    ELSE minIndex

\* the value getClosest pushes once a is not empty:
\* (p - positions[minIndex-1]) / (positions[minIndex] - positions[minIndex-1]) * inc
\*   + minIndex * inc
closest(pos, minIndex, p, inc) ==
    RAdd(RMul(RDiv(RSub(p, pos[minIndex]), RSub(pos[minIndex + 1], pos[minIndex])), inc),
         RMul(R(minIndex), inc))

\* getClosest(p) on the state st = [minIndex, a, smooth]
getClosest(st, pos, p, len, smoothRange) ==
    LET minIndex == advance(pos, st.minIndex, p, len)
        inc == Rat(1, len)
        minChange == RMul(Rat(1, len), Rat(6, 10))
        pushed == IF Len(st.a) = 0 THEN Zero ELSE closest(pos, minIndex, p, inc)
        arr == Append(st.a, pushed)
        n == Len(arr)
    IN  [minIndex |-> minIndex,
         a |-> arr,
         smooth |-> IF /\ smoothRange # 0
                       /\ n > smoothRange
                       /\ RLt(RSub(arr[n], arr[n - 1]), minChange)
                    THEN Append(st.smooth, n - smoothRange)
                    ELSE st.smooth]

\* for (i = 0; i < l; i++) getClosest(i / l), from i on
RECURSIVE sampleAll(_, _, _, _, _)
sampleAll(st, pos, i, len, smoothRange) ==
    IF i < len
    THEN sampleAll(getClosest(st, pos, Rat(i, len), len, smoothRange), pos, i + 1, len,
                   smoothRange)
    ELSE st

\* one callback of smooth.forEach: a linear change from a[i] to a[j]
smoothWindow(arr, i, len, fullSmoothRange) ==
    LET start == At(arr, i)
        j == IF i + fullSmoothRange < len THEN i + fullSmoothRange ELSE len
        inc == NDiv(NSub(At(arr, j), start), R(j - i))
    IN  [k \in 1..Len(arr) |->
            IF k - 1 > i /\ k - 1 < j
            THEN NAdd(start, NMul(inc, R(k - 1 - i)))
            ELSE arr[k]]

RECURSIVE smoothAll(_, _, _, _)
smoothAll(arr, windows, len, fullSmoothRange) ==
    IF windows = <<>> THEN arr
    ELSE smoothAll(smoothWindow(arr, Head(windows), len, fullSmoothRange), Tail(windows),
                   len, fullSmoothRange)

\* the table a the returned ease reads
tableOf(len, pos, smoothRange) ==
    LET st == sampleAll([minIndex |-> 0, a |-> <<>>, smooth |-> <<0>>], pos, 0, len, smoothRange)
        arr == Append(st.a, One)
    IN  IF smoothRange # 0
        THEN smoothAll(arr, Append(st.smooth, len - 2 * smoothRange + 1), len, 2 * smoothRange)
        ELSE arr

\* the returned ease: i = p * l, s = a[i | 0],
\* i ? s + (a[Math.ceil(i)] - s) * (i % 1) : 0
ease(arr, len, p) ==
    LET i == RMul(p, R(len))
        s == At(arr, RFloor(i))
    IN  IF i # Zero
        THEN NAdd(s, NMul(NSub(At(arr, RCeil(i)), s), RRem(i, One)))
        ELSE Zero

(* Inputs of pathEase *)

MaxL == 4
MaxSmooth == 2

\* precisions giving l = 0 (below 1/400) and l = 1..MaxL
Precisions == {Rat(1, 1000)} \cup {Rat(k, 200) : k \in 1..MaxL}
Smooths == {[flag |-> TRUE, amount |-> 0]} \cup {[flag |-> FALSE, amount |-> n] : n \in 0..MaxSmooth}
\* normalized positions a path can be at: in, below and above the axis extent
SampleValues(len) == {Rat(k, len) : k \in (0 - 1)..(len + 1)}
Progresses == UNION {{Rat(k, 2 * d) : k \in 0..(2 * d)} : d \in 1..MaxL}

InitEase ==
    /\ easePhase = "input"
    /\ precision \in Precisions
    /\ smooth \in Smooths
    /\ samples \in [1..(IF lOf(precision) > 1 THEN lOf(precision) - 1 ELSE 0) ->
                       SampleValues(IF lOf(precision) > 1 THEN lOf(precision) ELSE 1)]
    /\ l = 0
    /\ positions = <<>>
    /\ a = <<>>
    /\ progress = Zero
    /\ eased = Zero
    /\ LoopOff
    /\ ApiOff

\* pathEase(path, config) up to its return
pathEase ==
    /\ easePhase = "input"
    /\ easePhase' = "built"
    /\ l' = lOf(precision)
    /\ positions' = positionsOf(lOf(precision), samples)
    /\ a' = tableOf(lOf(precision), positionsOf(lOf(precision), samples), smoothRangeOf(smooth))
    /\ UNCHANGED <<precision, smooth, samples, progress, eased>>
    /\ UNCHANGED otherThanEase

\* a call of the returned ease
easeCall ==
    /\ easePhase = "built"
    /\ \E p \in Progresses :
          /\ progress' = p
          /\ eased' = ease(a, l, p)
    /\ easePhase' = "built"
    /\ UNCHANGED <<precision, smooth, samples, l, positions, a>>
    /\ UNCHANGED otherThanEase

NextEase == pathEase \/ easeCall

SpecEase == InitEase /\ [][NextEase]_vars

-----------------------------------------------------------------------------
(* api.ts: getTeams and getNews *)

\* "Slightly less than one hour", in milliseconds
StaleAfter == 3500000

\* the module just loaded: empty caches, the retrieval times set to Date.now()
InitApi ==
    /\ apiPhase = "on"
    /\ now = 0
    /\ ticks = 0
    /\ teamsCache = <<>>
    /\ teamsLastRetrieval = now
    /\ newsCache = <<>>
    /\ newsLastRetrieval = now
    /\ calls = [c \in Callers |-> Idle]
    /\ filled = [teams |-> 0 - 1, news |-> 0 - 1]
    /\ lastCall = [teams |-> NoCallYet, news |-> NoCallYet]
    /\ LoopOff
    /\ EaseOff

\* the clock moving on by a millisecond or by the whole staleness window
Tick ==
    /\ apiPhase = "on"
    /\ ticks < MaxTicks
    /\ \E d \in {1, StaleAfter} : now' = now + d
    /\ ticks' = ticks + 1
    /\ UNCHANGED <<apiPhase, teamsCache, teamsLastRetrieval, newsCache, newsLastRetrieval,
                   calls, filled, lastCall>>
    /\ UNCHANGED otherThanApi

\* Date.now() - lastRetrieval <= 3500000 && cache.length != 0
fresh(lastRetrieval, cache) == now - lastRetrieval <= StaleAfter /\ Len(cache) # 0

\* getTeams() up to its first await
getTeams(c) ==
    /\ apiPhase = "on"
    /\ calls[c].pc = "idle"
    /\ IF fresh(teamsLastRetrieval, teamsCache)
       THEN /\ lastCall' = [lastCall EXCEPT !.teams =
                                [at |-> now, queried |-> FALSE, since |-> filled.teams]]
            /\ UNCHANGED calls
       ELSE /\ lastCall' = [lastCall EXCEPT !.teams =
                                [at |-> now, queried |-> TRUE, since |-> filled.teams]]
            /\ calls' = [calls EXCEPT ![c] = [pc |-> "teamsQuery", pages |-> <<>>]]
    /\ UNCHANGED <<apiPhase, now, ticks, teamsCache, teamsLastRetrieval, newsCache,
                   newsLastRetrieval, filled>>
    /\ UNCHANGED otherThanApi

\* the teams query answering: teamsMap is filled from the team pages
teamsQueried(c) ==
    /\ calls[c].pc = "teamsQuery"
    /\ \E pages \in Pages : calls' = [calls EXCEPT ![c] = [pc |-> "membersQuery", pages |-> pages]]
    /\ UNCHANGED <<apiPhase, now, ticks, teamsCache, teamsLastRetrieval, newsCache,
                   newsLastRetrieval, filled, lastCall>>
    /\ UNCHANGED otherThanApi

\* the members query answering: the cache and its retrieval time are set
membersQueried(c) ==
    /\ calls[c].pc = "membersQuery"
    /\ teamsCache' = calls[c].pages
    /\ teamsLastRetrieval' = now
    /\ filled' = [filled EXCEPT !.teams = IF Len(calls[c].pages) # 0 THEN now ELSE 0 - 1]
    /\ calls' = [calls EXCEPT ![c] = Idle]
    /\ UNCHANGED <<apiPhase, now, ticks, newsCache, newsLastRetrieval, lastCall>>
    /\ UNCHANGED otherThanApi

\* either query throwing: the catch block logs and returns []
queryThrows(c) ==
    /\ calls[c].pc \in {"teamsQuery", "membersQuery", "newsQuery"}
    /\ calls' = [calls EXCEPT ![c] = Idle]
    /\ UNCHANGED <<apiPhase, now, ticks, teamsCache, teamsLastRetrieval, newsCache,
                   newsLastRetrieval, filled, lastCall>>
    /\ UNCHANGED otherThanApi

\* getNews() up to its await
getNews(c) ==
    /\ apiPhase = "on"
    /\ calls[c].pc = "idle"
    /\ IF fresh(newsLastRetrieval, newsCache)
       THEN /\ lastCall' = [lastCall EXCEPT !.news =
                                [at |-> now, queried |-> FALSE, since |-> filled.news]]
            /\ UNCHANGED calls
       ELSE /\ lastCall' = [lastCall EXCEPT !.news =
                                [at |-> now, queried |-> TRUE, since |-> filled.news]]
            /\ calls' = [calls EXCEPT ![c] = [pc |-> "newsQuery", pages |-> <<>>]]
    /\ UNCHANGED <<apiPhase, now, ticks, teamsCache, teamsLastRetrieval, newsCache,
                   newsLastRetrieval, filled>>
    /\ UNCHANGED otherThanApi

\* the news query answering: the articles are returned; no cache is written
newsQueried(c) ==
    /\ calls[c].pc = "newsQuery"
    /\ \E pages \in Pages :
          filled' = [filled EXCEPT !.news = IF Len(pages) # 0 THEN now ELSE 0 - 1]
    /\ calls' = [calls EXCEPT ![c] = Idle]
    /\ UNCHANGED <<apiPhase, now, ticks, teamsCache, teamsLastRetrieval, newsCache,
                   newsLastRetrieval, lastCall>>
    /\ UNCHANGED otherThanApi

NextApi ==
    \/ Tick
    \/ \E c \in Callers : getTeams(c)
    \/ \E c \in Callers : teamsQueried(c)
    \/ \E c \in Callers : membersQueried(c)
    \/ \E c \in Callers : queryThrows(c)
    \/ \E c \in Callers : getNews(c)
    \/ \E c \in Callers : newsQueried(c)

SpecApi == InitApi /\ [][NextApi]_vars

\* C9: each content type has its own time-based single-slot cache: once a call has
\* fetched a non-empty result, a later call of the same function within 3,500,000 ms
\* of that fetch does not query the content source, and a call after that queries it.
CachedFor(call) ==
    call.since >= 0 =>
        IF call.at - call.since <= StaleAfter THEN ~call.queried ELSE call.queried

C9_BothTypesCached == CachedFor(lastCall.teams) /\ CachedFor(lastCall.news)

-----------------------------------------------------------------------------
(* Claims about horizontalLoop *)

length == Len(items)
Called == phase = "built" /\ last.op # "none"
InRange(i) == i \in 0..(length - 1)
StoredTime == times[curIndex + 1]

\* C1: after next() from index k, current() is (k+1) mod n; after previous() it is
\* (k-1+n) mod n, from every state next, previous and toIndex reach.
C1_NextPrevious ==
    /\ (phase = "built" /\ last.op = "next") => curIndex = (last.from + 1) % length
    /\ (phase = "built" /\ last.op = "previous") => curIndex = (last.from - 1 + length) % length

\* previous() from index 0 on a loop of two items
C1_Witness ==
    /\ phase = "built" /\ last.op = "previous" /\ length = 2
    /\ last.from = 0 /\ curIndex = 1

\* C2: for a target t in [0, n) with |t - c| > n/2 the delta toIndex uses has
\* magnitude n - |t - c| and the opposite sign of t - c; otherwise it is t - c.
C2_ShorterArc ==
    (Called /\ last.op = "toIndex" /\ InRange(last.arg)) =>
        LET d == last.arg - last.from
            delta == last.index - last.from
        IN  IF 2 * Abs(d) > length
            THEN Abs(delta) = length - Abs(d) /\ delta * d < 0
            ELSE delta = d

\* the long way round is 2 steps forward on a loop of 3: toIndex goes 1 step back
C2_Witness ==
    /\ Called /\ last.op = "toIndex" /\ InRange(last.arg)
    /\ 2 * Abs(last.arg - last.from) > length
    /\ last.index - last.from = 0 - 1

\* C3 as stated: toIndex(i) right after toIndex(i) leaves curIndex = i and passes
\* tweenTo the playhead's own time, wherever the playhead is.
C3_RepeatIsNoOp ==
    (Called /\ last.again /\ InRange(last.arg)) =>
        curIndex = last.arg /\ last.time = last.at

\* C3 amended: toIndex(i) right after toIndex(i) leaves curIndex = i; the time passed
\* to tweenTo is times[i] when the playhead is at or past times[i] (so a zero-duration
\* tween exactly when the playhead stands on times[i]) and times[i] - duration when
\* the playhead is before times[i].
C3_RepeatKeepsIndex ==
    (Called /\ last.again /\ InRange(last.arg)) =>
        /\ curIndex = last.arg
        /\ last.from = last.arg
        /\ last.at = StoredTime => last.time = last.at
        /\ last.time = IF RGt(StoredTime, last.at) THEN RSub(StoredTime, tlDuration)
                       ELSE StoredTime

\* the second toIndex(i) made with the playhead standing on times[i]
C3_Witness ==
    /\ Called /\ last.again /\ InRange(last.arg)
    /\ last.at = StoredTime /\ last.time = last.at /\ curIndex = last.arg

\* C4: curIndex is 0 after construction, changes only in toIndex, and is always an
\* integer in [0, length), whatever integer toIndex is given.
C4_CurIndexInRange ==
    phase = "built" =>
        /\ curIndex \in 0..(length - 1)
        /\ last.op = "none" => curIndex = 0
        /\ last.op # "none" => curIndex = (last.index % length)

\* toIndex with a negative target, wrapped to the last item
C4_Witness ==
    /\ Called /\ last.op = "toIndex" /\ last.arg < 0 /\ last.index < 0
    /\ curIndex = length - 1 /\ length > 1

\* the tween does not travel against the direction the index order implies
TowardsIndex ==
    /\ last.index > last.from => RGe(last.time, last.at)
    /\ last.index < last.from => RLe(last.time, last.at)

\* the time passed to tweenTo is the stored time, or one cycle duration away from it
OneCycleApart ==
    \/ last.time = StoredTime
    \/ last.index > last.from /\ last.time = RAdd(StoredTime, tlDuration)
    \/ ~(last.index > last.from) /\ last.time = RSub(StoredTime, tlDuration)

PlayheadInCycle == RLe(Zero, last.at) /\ RLe(last.at, tlDuration)
StoredTimeInCycle == RLe(Zero, StoredTime) /\ RLe(StoredTime, tlDuration)

\* C10 as stated: with the playhead in [0, duration] the time passed to tweenTo is
\* >= the playhead when index > curIndex, <= it when index < curIndex, and differs
\* from times[newIndex] by 0 or one cycle duration.
C10_NeverAgainstDirection ==
    (Called /\ PlayheadInCycle) => TowardsIndex /\ OneCycleApart

\* C10 amended: with the playhead in [0, duration] the time passed to tweenTo differs
\* from times[newIndex] by 0 or one cycle duration, and it is >= the playhead when
\* index > curIndex and <= it when index < curIndex provided times[newIndex] lies in
\* [0, duration].
C10_DirectionWithinCycle ==
    (Called /\ PlayheadInCycle) =>
        /\ OneCycleApart
        /\ StoredTimeInCycle => TowardsIndex

\* the wrap case: going forward to a target whose stored time is behind the playhead
C10_Witness ==
    /\ Called /\ PlayheadInCycle /\ StoredTimeInCycle
    /\ last.index > last.from /\ RLt(StoredTime, last.at)
    /\ last.time = RAdd(StoredTime, tlDuration) /\ last.wrapped

\* C5 as stated: times has length n and is strictly increasing for every geometry.
C5_TimesStrictlyIncreasing ==
    phase = "built" =>
        /\ Len(times) = length
        /\ \A i \in 1..(length - 1) : RLt(times[i], times[i + 1])

\* the left edge of item i as rendered, in hundredths of a pixel
LeftEdge(i) == RAdd(R(100 * items[i].offsetLeft), RMul(xPercents[i], R(widths[i])))

\* C5 amended: times has length n, times[i] = (offsetLeft_i + xPercents[i]/100 *
\* widths[i] - offsetLeft_0) / (speed * 100), and times is strictly increasing when
\* speed > 0 and the items' rendered left edges offsetLeft_i + xPercents[i]/100 *
\* widths[i] are strictly increasing.
C5_TimesFollowLeftEdges ==
    phase = "built" =>
        /\ Len(times) = length
        /\ \A i \in 1..length :
              times[i] = RDiv(RSub(LeftEdge(i), R(100 * items[1].offsetLeft)),
                              R(config.speed * 100 * 100))
        /\ (config.speed > 0 /\ \A i \in 1..(length - 1) : RLt(LeftEdge(i), LeftEdge(i + 1)))
              => \A i \in 1..(length - 1) : RLt(times[i], times[i + 1])

\* items translated by a negative x whose left edges still increase
C5_Witness ==
    /\ phase = "built" /\ length >= 2 /\ config.speed > 0
    /\ \A i \in 1..(length - 1) : RLt(LeftEdge(i), LeftEdge(i + 1))
    /\ \A i \in 1..(length - 1) : RLt(times[i], times[i + 1])
    /\ \E i \in 1..length : items[i].x < 0

-----------------------------------------------------------------------------
(* Claims about pathEase *)

InUnit(v) == ~IsNaN(v) /\ RLe(Zero, v) /\ RLe(v, One)
StraightLine == l >= 1 /\ \A k \in 0..l : positions[k + 1] = Rat(k, l)

\* C6: the returned ease gives ease(0) = 0 and ease(1) = 1 for every path and every
\* precision (every l, the smallest included), with smoothing on or off.
C6_EaseEndpoints ==
    easePhase = "built" =>
        /\ ease(a, l, Zero) = Zero
        /\ ease(a, l, One) = One

\* C7: for a straight-line path (positions[k] = k/l) and smoothing off the returned
\* ease is the identity: a[i] = i/l for every i in 0..l and ease(p) = p.
C7_StraightLineIsIdentity ==
    (easePhase = "built" /\ StraightLine /\ smoothRangeOf(smooth) = 0) =>
        /\ \A i \in 0..l : At(a, i) = Rat(i, l)
        /\ eased = progress

\* C8: for positions[0] = 0 and positions[l] = 1 every table entry a[i], and so every
\* value the returned ease gives for p in [0, 1], lies in [0, 1].
C8_EaseInUnitInterval ==
    (easePhase = "built" /\ l >= 1) =>
        /\ \A i \in 0..l : InUnit(At(a, i))
        /\ InUnit(eased)

====
